---- MODULE Spec2Model ----
(***************************************************************************)
(* Room session and signaling engine of the chat server (chat app/app.py). *)
(*                                                                         *)
(* Strings are sequences of one-character strings, so that strip(),        *)
(* upper() and lower() are computed rather than assumed.  A handler is a   *)
(* sequence of steps, one per source statement that touches shared state;  *)
(* the sequential specification runs a handler to completion in one        *)
(* action, the threaded specifications interleave the steps of handlers    *)
(* (async_mode='threading', no lock anywhere in the module).               *)
(* Timestamps (get_timestamp) are left out of messages and events.         *)
(***************************************************************************)
EXTENDS Integers, Sequences, FiniteSets, TLC

\* ---------------------------------------------------------------- bounds
MaxHist == 3
MaxCallHist == 5
MaxRaceHist == 4

\* ------------------------------------------------------------- constants
MaxVoiceBytes == 5 * 1024 * 1024

\* ------------------------------------------------------------ input sets
Sids == {<<"p">>, <<"q">>}
RoomInputs == {<<"a">>, <<"C", " ">>, <<" ">>}
NameInputs == {<<"b">>, <<"B", " ">>, <<"d">>, <<>>}
TextInputs == {<<"h">>, <<" ">>}
AudioInputs == {0, 1, MaxVoiceBytes + 1}

\* --------------------------------------------------------------- strings
UpperChar(ch) ==
  CASE ch = "a" -> "A" [] ch = "b" -> "B" [] ch = "c" -> "C" [] ch = "d" -> "D"
    [] ch = "h" -> "H" [] ch = "p" -> "P" [] ch = "q" -> "Q" [] OTHER -> ch

LowerChar(ch) ==
  CASE ch = "A" -> "a" [] ch = "B" -> "b" [] ch = "C" -> "c" [] ch = "D" -> "d"
    [] ch = "H" -> "h" [] ch = "P" -> "p" [] ch = "Q" -> "q" [] OTHER -> ch

upper(s) == [i \in 1..Len(s) |-> UpperChar(s[i])]

lower(s) == [i \in 1..Len(s) |-> LowerChar(s[i])]

RECURSIVE lstrip(_)
lstrip(s) == IF s # <<>> /\ Head(s) = " " THEN lstrip(Tail(s)) ELSE s

RECURSIVE rstrip(_)
rstrip(s) ==
  IF s # <<>> /\ s[Len(s)] = " " THEN rstrip(SubSeq(s, 1, Len(s) - 1)) ELSE s

strip(s) == rstrip(lstrip(s))

\* data.get('room_id', '').strip().upper()
NormRoomId(raw) == upper(strip(raw))

RoomIds == {NormRoomId(r) : r \in RoomInputs} \ {<<>>}

\* ------------------------------------------------------- dicts and lists
Put(f, k, v) == [x \in DOMAIN f \cup {k} |-> IF x = k THEN v ELSE f[x]]

Del(f, k) == [x \in DOMAIN f \ {k} |-> f[x]]

Elems(s) == {s[i] : i \in 1..Len(s)}

\* list.remove(x): drops the first occurrence of x
RECURSIVE list_remove(_, _)
list_remove(s, x) ==
  IF s = <<>> THEN <<>>
  ELSE IF Head(s) = x THEN Tail(s)
  ELSE <<Head(s)>> \o list_remove(Tail(s), x)

\* the users dict {sid: username}: a sequence of entries in insertion order
UserKeys(users) == {users[i].sid : i \in 1..Len(users)}

UserGet(users, sid) ==
  (CHOOSE i \in 1..Len(users) : users[i].sid = sid) \* index of the key

UserName(users, sid) == users[UserGet(users, sid)].name

\* users[sid] = name: an existing key keeps its place
UserPut(users, sid, name) ==
  IF sid \in UserKeys(users)
  THEN [i \in 1..Len(users) |->
          IF users[i].sid = sid THEN [sid |-> sid, name |-> name] ELSE users[i]]
  ELSE Append(users, [sid |-> sid, name |-> name])

\* del users[sid]
UserDel(users, sid) == SelectSeq(users, LAMBDA e : e.sid # sid)

\* list(users.values())
UserValues(users) == [i \in 1..Len(users) |-> users[i].name]

\* ------------------------------------------------------------- messages
SystemName == <<"System">>

SystemMsg(text) ==
  [type |-> "system", username |-> SystemName, message |-> text,
   sender_id |-> <<>>, audio_data |-> 0]

TextMsg(username, text, sid) ==
  [type |-> "text", username |-> username, message |-> text,
   sender_id |-> sid, audio_data |-> 0]

VoiceMsg(username, audio, sid) ==
  [type |-> "voice", username |-> username, message |-> <<>>,
   sender_id |-> sid, audio_data |-> audio]

NewRoom ==
  [users |-> <<>>, messages |-> <<>>,
   video_call |-> [active |-> FALSE, participants |-> <<>>]]


\* ----------------------------------------------------------------- state
VARIABLES
  active_rooms,  \* the dict active_rooms: room id -> room
  sio_rooms,     \* the transport's rooms of each sid (rooms() minus its own)
  live,          \* the sids whose connection is open
  received,      \* per sid and room: the new_message events delivered to the
                 \* sid through that room since it entered it
  from_start,    \* the <<sid, room>> pairs of members that entered the room
                 \* while its history was empty and have not left since
  threads        \* per sid: the handler invocation it runs or ran last

vars == <<active_rooms, sio_rooms, live, received, from_start, threads>>

\* the shared state a handler step reads and writes
World ==
  [rooms |-> active_rooms, sio |-> sio_rooms, live |-> live,
   received |-> received, from_start |-> from_start]

Idle ==
  [op |-> "idle", pc |-> "done", sid |-> <<>>, room_id |-> <<>>,
   username |-> <<>>, message |-> <<>>, audio_data |-> 0, flag |-> FALSE,
   todo |-> <<>>, out |-> <<>>, fault |-> FALSE]

\* ----------------------------------------------------------------- emit
\* the sids an emit with room=name reaches: the members of that transport
\* room; every live sid is the only member of the room named by itself
Recipients(w, name) == {c \in w.live : name = c \/ name \in w.sio[c]}

\* an emitted event: its name, the room= it was addressed to (the sid's own
\* room when none is given), the sids that room holds, and the payload
Event(event, room, to, data) ==
  [event |-> event, room |-> room, to |-> to, data |-> data]

\* emit(event, data): to the originating connection only
emit_self(t, event, data) ==
  [t EXCEPT !.out = Append(@, Event(event, t.sid, {t.sid}, data))]

\* emit(event, data, room=name, skip_sid=skip)
emit_room(w, t, event, data, name, skip) ==
  [t EXCEPT !.out =
     Append(@, Event(event, name, Recipients(w, name) \ skip, data))]

\* the record of delivered new_message events after such an emit
Deliver(w, msg, name) ==
  [w EXCEPT !.received =
     [c \in DOMAIN @ |->
        IF c \in Recipients(w, name) /\ name \in DOMAIN @[c]
        THEN [@[c] EXCEPT ![name] = Append(@, msg)] ELSE @[c]]]

\* except Exception as e: emit('error', ...); the handler ends
Except(w, t, what) ==
  [w |-> w,
   t |-> [emit_self(t, "error", [message |-> <<"Failed to ">> \o what])
            EXCEPT !.pc = "done"]]

Goto(w, t, pc) == [w |-> w, t |-> [t EXCEPT !.pc = pc]]

\* mutant: the system message is never stored
add_system_message_unstored(rooms, room_id, message) == rooms

\* add_system_message(room_id, message)
add_system_message(rooms, room_id, message) ==
  IF room_id \in DOMAIN rooms
  THEN [rooms EXCEPT ![room_id].messages = Append(@, SystemMsg(message))]
  ELSE rooms

\* mutant: the message is broadcast but never stored
history_append_lost(messages, message_obj) == messages

\* messages.append(message_obj)
history_append(messages, message_obj) == Append(messages, message_obj)

\* mutant: the emptiness test made before the leaver is removed
no_users_before_removal(room) == Len(room.users) = 1

\* len(active_rooms[room_id]['users']) == 0
no_users(room) == Len(room.users) = 0

\* generate_room_id(): any six hexadecimal characters
generate_room_id == RoomIds


\* ------------------------------------------------------ handler plumbing
Has(w, t) == t.room_id \in DOMAIN w.rooms

Rm(w, t) == w.rooms[t.room_id]

IsUser(w, t) == Has(w, t) /\ t.sid \in UserKeys(Rm(w, t).users)

InCall(w, t) == t.sid \in Elems(Rm(w, t).video_call.participants)

Done(w, t) == Goto(w, t, "done")

NotInRoom == [message |-> <<"You are not in this room">>]

Perms(S) ==
  {p \in [1..Cardinality(S) -> S] :
     \A i, j \in 1..Cardinality(S) : i # j => p[i] # p[j]}

\* the transport's join_room(room_id) for the current sid
sio_join(w, t) ==
  [w EXCEPT !.sio[t.sid] = @ \cup {t.room_id},
            !.received[t.sid] =
               IF t.room_id \in w.sio[t.sid] THEN @ ELSE Put(@, t.room_id, <<>>)]

\* the transport's leave_room(room_id) for the current sid
sio_leave(w, t) ==
  [w EXCEPT !.sio[t.sid] = @ \ {t.room_id},
            !.received[t.sid] = Del(@, t.room_id),
            !.from_start = @ \ {<<t.sid, t.room_id>>}]

\* after the disconnect handler the transport drops the sid from every room
sio_disconnect(w, t) ==
  [w EXCEPT !.sio[t.sid] = {},
            !.live = @ \ {t.sid},
            !.received[t.sid] = <<>>,
            !.from_start = {p \in @ : p[1] # t.sid}]

\* ------------------------------------------------------------ disconnect
UnknownUser == <<"Unknown User">>

\* handle_disconnect has no try/except: an exception ends the handler
Fault(w, t) ==
  [w |-> [w EXCEPT !.live = @ \ {t.sid}],
   t |-> [t EXCEPT !.pc = "done", !.fault = TRUE]]

disconnect_step(w, t) ==
  CASE t.pc = "L62" ->
         IF t.todo = <<>> THEN Done(sio_disconnect(w, t), t)
         ELSE Goto(w, [t EXCEPT !.room_id = Head(t.todo), !.todo = Tail(t.todo)],
                   "L63")
    [] t.pc = "L63" -> Goto(w, t, IF Has(w, t) THEN "L64" ELSE "L62")
    [] t.pc = "L64" ->
         IF ~Has(w, t) THEN Fault(w, t)
         ELSE Goto(w, [t EXCEPT !.username =
                         IF IsUser(w, t) THEN UserName(Rm(w, t).users, t.sid)
                         ELSE UnknownUser], "L68")
    [] t.pc = "L68" ->
         IF ~Has(w, t) THEN Fault(w, t)
         ELSE Goto(w, t, IF InCall(w, t) THEN "L69" ELSE "L76")
    [] t.pc = "L69" ->
         IF ~Has(w, t) \/ ~InCall(w, t) THEN Fault(w, t)
         ELSE Goto([w EXCEPT !.rooms[t.room_id].video_call.participants =
                      list_remove(@, t.sid)], t, "L70")
    [] t.pc = "L70" ->
         Goto(w, emit_room(w, t, "user_left_call",
                           [peer_id |-> t.sid, username |-> t.username],
                           t.room_id, {}), "L76")
    [] t.pc = "L76" ->
         IF ~Has(w, t) THEN Fault(w, t)
         ELSE Goto(w, t, IF IsUser(w, t) THEN "L77" ELSE "L80")
    [] t.pc = "L77" ->
         IF ~IsUser(w, t) THEN Fault(w, t)
         ELSE Goto([w EXCEPT !.rooms[t.room_id].users = UserDel(@, t.sid),
                             !.from_start = @ \ {<<t.sid, t.room_id>>}],
                   t, "L80")
    [] t.pc = "L80" ->
         Goto([w EXCEPT !.rooms = add_system_message(
                  @, t.room_id, t.username \o <<" has left the room">>)],
              t, "L81")
    [] t.pc = "L81" ->
         IF ~Has(w, t) THEN Fault(w, t)
         ELSE Goto(w, emit_room(w, t, "user_left",
                                [username |-> t.username,
                                 users |-> UserValues(Rm(w, t).users)],
                                t.room_id, {}), "L88")
    [] t.pc = "L88" ->
         IF ~Has(w, t) THEN Fault(w, t)
         ELSE Goto(w, t, IF no_users(Rm(w, t)) THEN "L89" ELSE "L62")
    [] t.pc = "L89" ->
         IF ~Has(w, t) THEN Fault(w, t)
         ELSE Goto([w EXCEPT !.rooms = Del(@, t.room_id)], t, "L62")

\* ----------------------------------------------------------- create_room
create_room_step(w, t) ==
  CASE t.pc = "L102" ->
         IF ~Has(w, t) THEN Goto(w, t, "L106")
         ELSE IF Len(t.todo) > 0
         THEN Goto(w, [t EXCEPT !.room_id = Head(t.todo), !.todo = Tail(t.todo)],
                   "L102")
         ELSE Goto(w, t, "L102")
    [] t.pc = "L106" ->
         Goto([w EXCEPT !.rooms = Put(@, t.room_id, NewRoom)], t, "L115")
    [] t.pc = "L115" ->
         Done(w, emit_self(t, "room_created", [room_id |-> t.room_id]))

\* ------------------------------------------------------------- join_room
\* mutant: the comparison without .lower()
NameTaken_case_sensitive(users, username) ==
  username \in {UserValues(users)[i] : i \in 1..Len(users)}

NameTaken(users, username) ==
  lower(username) \in {lower(UserValues(users)[i]) : i \in 1..Len(users)}

join_room_step(w, t) ==
  CASE t.pc = "L138" -> Goto(w, [t EXCEPT !.flag = ~Has(w, t)], "L139")
    [] t.pc = "L139" ->
         Goto(IF t.flag THEN [w EXCEPT !.rooms = Put(@, t.room_id, NewRoom)]
              ELSE w, t, "L149")
    [] t.pc = "L149" ->
         IF ~Has(w, t) THEN Except(w, t, <<"join room">>)
         ELSE IF NameTaken(Rm(w, t).users, t.username)
         THEN Done(w, emit_self(t, "error",
                 [message |-> <<"Username already taken in this room">>]))
         ELSE Goto(w, t, "L155")
    [] t.pc = "L155" -> Goto(sio_join(w, t), t, "L156")
    [] t.pc = "L156" ->
         IF ~Has(w, t) THEN Except(w, t, <<"join room">>)
         ELSE Goto([w EXCEPT
                      !.rooms[t.room_id].users = UserPut(@, t.sid, t.username),
                      !.from_start =
                         IF IsUser(w, t) \/ Rm(w, t).messages # <<>>
                         THEN @ ELSE @ \cup {<<t.sid, t.room_id>>}],
                   t, "L159")
    [] t.pc = "L159" ->
         IF ~Has(w, t) THEN Except(w, t, <<"join room">>)
         ELSE Goto(w, emit_self(t, "room_joined",
                      [room_id |-> t.room_id, username |-> t.username,
                       messages |-> Rm(w, t).messages,
                       users |-> UserValues(Rm(w, t).users),
                       video_call_active |-> Rm(w, t).video_call.active]),
                   "L168")
    [] t.pc = "L168" ->
         Goto([w EXCEPT !.rooms = add_system_message(
                  @, t.room_id, t.username \o <<" has joined the room">>)],
              t, "L169")
    [] t.pc = "L169" ->
         IF ~Has(w, t) THEN Except(w, t, <<"join room">>)
         ELSE Done(w, emit_room(w, t, "user_joined",
                                [username |-> t.username,
                                 users |-> UserValues(Rm(w, t).users)],
                                t.room_id, {t.sid}))

\* ------------------------------------------------------------ leave_room
leave_room_step(w, t) ==
  CASE t.pc = "L187" ->
         IF IsUser(w, t)
         THEN Goto(w, [t EXCEPT !.username = UserName(Rm(w, t).users, t.sid)],
                   "L191")
         ELSE Done(w, t)
    [] t.pc = "L191" ->
         IF ~Has(w, t) THEN Except(w, t, <<"leave room">>)
         ELSE Goto(w, t, IF InCall(w, t) THEN "L192" ELSE "L199")
    [] t.pc = "L192" ->
         IF ~Has(w, t) \/ ~InCall(w, t) THEN Except(w, t, <<"leave room">>)
         ELSE Goto([w EXCEPT !.rooms[t.room_id].video_call.participants =
                      list_remove(@, t.sid)], t, "L193")
    [] t.pc = "L193" ->
         Goto(w, emit_room(w, t, "user_left_call",
                           [peer_id |-> t.sid, username |-> t.username],
                           t.room_id, {}), "L199")
    [] t.pc = "L199" ->
         IF ~IsUser(w, t) THEN Except(w, t, <<"leave room">>)
         ELSE Goto([w EXCEPT !.rooms[t.room_id].users = UserDel(@, t.sid)],
                   t, "L200")
    [] t.pc = "L200" -> Goto(sio_leave(w, t), t, "L203")
    [] t.pc = "L203" ->
         Goto([w EXCEPT !.rooms = add_system_message(
                  @, t.room_id, t.username \o <<" has left the room">>)],
              t, "L204")
    [] t.pc = "L204" ->
         IF ~Has(w, t) THEN Except(w, t, <<"leave room">>)
         ELSE Goto(w, emit_room(w, t, "user_left",
                                [username |-> t.username,
                                 users |-> UserValues(Rm(w, t).users)],
                                t.room_id, {}), "L211")
    [] t.pc = "L211" ->
         IF ~Has(w, t) THEN Except(w, t, <<"leave room">>)
         ELSE Goto(w, t, IF no_users(Rm(w, t)) THEN "L212" ELSE "L215")
    [] t.pc = "L212" ->
         IF ~Has(w, t) THEN Except(w, t, <<"leave room">>)
         ELSE Goto([w EXCEPT !.rooms = Del(@, t.room_id)], t, "L215")
    [] t.pc = "L215" ->
         Done(w, emit_self(t, "left_room", [room_id |-> t.room_id]))


\* ---------------------------------------------------------- send_message
send_message_step(w, t) ==
  CASE t.pc = "L232" ->
         IF ~IsUser(w, t) THEN Done(w, emit_self(t, "error", NotInRoom))
         ELSE Goto(w, t, "L236")
    [] t.pc = "L236" ->
         IF ~IsUser(w, t) THEN Except(w, t, <<"send message">>)
         ELSE Goto(w, [t EXCEPT !.username = UserName(Rm(w, t).users, t.sid)],
                   "L249")
    [] t.pc = "L249" ->
         IF ~Has(w, t) THEN Except(w, t, <<"send message">>)
         ELSE Goto([w EXCEPT !.rooms[t.room_id].messages =
                      history_append(@, TextMsg(t.username, t.message, t.sid))],
                   t, "L252")
    [] t.pc = "L252" ->
         Done(Deliver(w, TextMsg(t.username, t.message, t.sid), t.room_id),
              emit_room(w, t, "new_message",
                        TextMsg(t.username, t.message, t.sid), t.room_id, {}))

\* ------------------------------------------------------- send_voice_note
send_voice_note_step(w, t) ==
  CASE t.pc = "L271" ->
         IF ~IsUser(w, t) THEN Done(w, emit_self(t, "error", NotInRoom))
         ELSE IF t.audio_data > MaxVoiceBytes
         THEN Done(w, emit_self(t, "error",
                 [message |-> <<"Voice note too large (max 5MB)">>]))
         ELSE Goto(w, t, "L281")
    [] t.pc = "L281" ->
         IF ~IsUser(w, t) THEN Except(w, t, <<"send voice note">>)
         ELSE Goto(w, [t EXCEPT !.username = UserName(Rm(w, t).users, t.sid)],
                   "L295")
    [] t.pc = "L295" ->
         IF ~Has(w, t) THEN Except(w, t, <<"send voice note">>)
         ELSE Goto([w EXCEPT !.rooms[t.room_id].messages =
                      history_append(@, VoiceMsg(t.username, t.audio_data, t.sid))],
                   t, "L298")
    [] t.pc = "L298" ->
         Done(Deliver(w, VoiceMsg(t.username, t.audio_data, t.sid), t.room_id),
              emit_room(w, t, "new_message",
                        VoiceMsg(t.username, t.audio_data, t.sid),
                        t.room_id, {}))

\* ------------------------------------------------------ start_video_call
start_video_call_step(w, t) ==
  CASE t.pc = "L313" ->
         IF ~IsUser(w, t) THEN Done(w, emit_self(t, "error", NotInRoom))
         ELSE Goto(w, t, "L317")
    [] t.pc = "L317" ->
         IF ~IsUser(w, t) THEN Except(w, t, <<"start video call">>)
         ELSE Goto(w, [t EXCEPT !.username = UserName(Rm(w, t).users, t.sid)],
                   "L320")
    [] t.pc = "L320" ->
         IF ~Has(w, t) THEN Except(w, t, <<"start video call">>)
         ELSE Goto([w EXCEPT !.rooms[t.room_id].video_call.active = TRUE],
                   t, "L321")
    [] t.pc = "L321" ->
         IF ~Has(w, t) THEN Except(w, t, <<"start video call">>)
         ELSE Goto([w EXCEPT !.rooms[t.room_id].video_call.participants =
                      Append(@, t.sid)], t, "L324")
    [] t.pc = "L324" ->
         Goto([w EXCEPT !.rooms = add_system_message(
                  @, t.room_id, t.username \o <<" started a video call">>)],
              t, "L325")
    [] t.pc = "L325" ->
         Done(w, emit_room(w, t, "video_call_started",
                           [username |-> t.username, peer_id |-> t.sid],
                           t.room_id, {}))

\* ------------------------------------------------------- join_video_call
\* other_participants: the participants other than sid that are room users
other_participants(room, sid) ==
  LET others == SelectSeq(room.video_call.participants,
                          LAMBDA pid : pid # sid /\ pid \in UserKeys(room.users))
  IN [i \in 1..Len(others) |->
        [peer_id |-> others[i], username |-> UserName(room.users, others[i])]]

join_video_call_step(w, t) ==
  CASE t.pc = "L343" ->
         IF ~IsUser(w, t) THEN Done(w, emit_self(t, "error", NotInRoom))
         ELSE Goto(w, t, "L347")
    [] t.pc = "L347" ->
         IF ~IsUser(w, t) THEN Except(w, t, <<"join video call">>)
         ELSE Goto(w, [t EXCEPT !.username = UserName(Rm(w, t).users, t.sid)],
                   "L350")
    [] t.pc = "L350" ->
         IF ~Has(w, t) THEN Except(w, t, <<"join video call">>)
         ELSE Goto(w, t, IF InCall(w, t) THEN "L354" ELSE "L351")
    [] t.pc = "L351" ->
         IF ~Has(w, t) THEN Except(w, t, <<"join video call">>)
         ELSE Goto([w EXCEPT !.rooms[t.room_id].video_call.participants =
                      Append(@, t.sid)], t, "L354")
    [] t.pc = "L354" ->
         IF ~Has(w, t) THEN Except(w, t, <<"join video call">>)
         ELSE Goto(w, emit_self(t, "existing_participants",
                      [participants |-> other_participants(Rm(w, t), t.sid)]),
                   "L366")
    [] t.pc = "L366" ->
         Goto(w, emit_room(w, t, "user_joined_call",
                           [peer_id |-> t.sid, username |-> t.username],
                           t.room_id, {t.sid}), "L371")
    [] t.pc = "L371" ->
         Goto([w EXCEPT !.rooms = add_system_message(
                  @, t.room_id, t.username \o <<" joined the video call">>)],
              t, "L372")
    [] t.pc = "L372" ->
         Done(Deliver(w, SystemMsg(t.username \o <<" joined the video call">>),
                      t.room_id),
              emit_room(w, t, "new_message",
                        SystemMsg(t.username \o <<" joined the video call">>),
                        t.room_id, {}))

\* ------------------------------------------------------ leave_video_call
leave_video_call_step(w, t) ==
  CASE t.pc = "L391" ->
         IF ~IsUser(w, t) THEN Done(w, t) ELSE Goto(w, t, "L394")
    [] t.pc = "L394" ->
         IF ~IsUser(w, t) THEN Except(w, t, <<"leave video call">>)
         ELSE Goto(w, [t EXCEPT !.username = UserName(Rm(w, t).users, t.sid)],
                   "L397")
    [] t.pc = "L397" ->
         IF ~Has(w, t) THEN Except(w, t, <<"leave video call">>)
         ELSE Goto(w, t, IF InCall(w, t) THEN "L398" ELSE "L401")
    [] t.pc = "L398" ->
         IF ~Has(w, t) \/ ~InCall(w, t)
         THEN Except(w, t, <<"leave video call">>)
         ELSE Goto([w EXCEPT !.rooms[t.room_id].video_call.participants =
                      list_remove(@, t.sid)], t, "L401")
    [] t.pc = "L401" ->
         IF ~Has(w, t) THEN Except(w, t, <<"leave video call">>)
         ELSE Goto(w, t, IF Len(Rm(w, t).video_call.participants) = 0
                         THEN "L402" ELSE "L407")
    [] t.pc = "L402" ->
         IF ~Has(w, t) THEN Except(w, t, <<"leave video call">>)
         ELSE Goto([w EXCEPT !.rooms[t.room_id].video_call.active = FALSE],
                   t, "L403")
    [] t.pc = "L403" ->
         Goto([w EXCEPT !.rooms = add_system_message(
                  @, t.room_id, <<"Video call ended">>)], t, "L404")
    [] t.pc = "L404" ->
         Goto(w, emit_room(w, t, "video_call_ended", <<>>, t.room_id, {}),
              "L407")
    [] t.pc = "L407" ->
         Goto(w, emit_room(w, t, "user_left_call",
                           [peer_id |-> t.sid, username |-> t.username],
                           t.room_id, {}), "L412")
    [] t.pc = "L412" ->
         Goto([w EXCEPT !.rooms = add_system_message(
                  @, t.room_id, t.username \o <<" left the video call">>)],
              t, "L413")
    [] t.pc = "L413" ->
         Done(Deliver(w, SystemMsg(t.username \o <<" left the video call">>),
                      t.room_id),
              emit_room(w, t, "new_message",
                        SystemMsg(t.username \o <<" left the video call">>),
                        t.room_id, {}))


\* ------------------------------------------------------ signaling relay
\* handle_webrtc_offer, handle_webrtc_answer, handle_ice_candidate: one emit
\* with room=target_peer; t.room_id holds target_peer, t.message the payload
relay_step(w, t) ==
  CASE t.pc = "L434" ->
         Done(w, emit_room(w, t, "webrtc_offer",
                           [offer |-> t.message, peer_id |-> t.sid],
                           t.room_id, {}))
    [] t.pc = "L449" ->
         Done(w, emit_room(w, t, "webrtc_answer",
                           [answer |-> t.message, peer_id |-> t.sid],
                           t.room_id, {}))
    [] t.pc = "L464" ->
         Done(w, emit_room(w, t, "webrtc_ice_candidate",
                           [candidate |-> t.message, peer_id |-> t.sid],
                           t.room_id, {}))

\* -------------------------------------------------------- handler entry
\* the part of each handler before its first access to shared state
New(c, op) == [Idle EXCEPT !.op = op, !.sid = c]

\* mutant: the first of the connection's rooms is not cleaned up
begin_disconnect_skipping(c, order) ==
  [New(c, "disconnect") EXCEPT
     !.todo = IF order = <<>> THEN order ELSE Tail(order), !.pc = "L62"]

begin_disconnect(c, order) ==
  [New(c, "disconnect") EXCEPT !.todo = order, !.pc = "L62"]

begin_create_room(c, ids) ==
  [New(c, "create_room") EXCEPT
     !.room_id = Head(ids), !.todo = Tail(ids), !.pc = "L102"]

\* mutant: the username is not tested for being blank
begin_join_room_unchecked(c, raw_room, raw_name) ==
  LET t == [New(c, "join_room") EXCEPT
              !.room_id = NormRoomId(raw_room), !.username = strip(raw_name)]
  IN IF t.room_id = <<>>
     THEN emit_self(t, "error", [message |-> <<"Room ID is required">>])
     ELSE [t EXCEPT !.pc = "L138"]

begin_join_room(c, raw_room, raw_name) ==
  LET t == [New(c, "join_room") EXCEPT
              !.room_id = NormRoomId(raw_room), !.username = strip(raw_name)]
  IN IF t.room_id = <<>>
     THEN emit_self(t, "error", [message |-> <<"Room ID is required">>])
     ELSE IF t.username = <<>>
     THEN emit_self(t, "error", [message |-> <<"Username is required">>])
     ELSE [t EXCEPT !.pc = "L138"]

begin_leave_room(c, raw_room) ==
  [New(c, "leave_room") EXCEPT !.room_id = NormRoomId(raw_room), !.pc = "L187"]

\* mutant: the text is tested for being empty before it is stripped
begin_send_message_unstripped(c, raw_room, raw_text) ==
  LET t == [New(c, "send_message") EXCEPT
              !.room_id = NormRoomId(raw_room), !.message = strip(raw_text)]
  IN IF raw_text = <<>> THEN t ELSE [t EXCEPT !.pc = "L232"]

begin_send_message(c, raw_room, raw_text) ==
  LET t == [New(c, "send_message") EXCEPT
              !.room_id = NormRoomId(raw_room), !.message = strip(raw_text)]
  IN IF t.message = <<>> THEN t ELSE [t EXCEPT !.pc = "L232"]

begin_send_voice_note(c, raw_room, audio) ==
  LET t == [New(c, "send_voice_note") EXCEPT
              !.room_id = NormRoomId(raw_room), !.audio_data = audio]
  IN IF audio = 0
     THEN emit_self(t, "error", [message |-> <<"No audio data received">>])
     ELSE [t EXCEPT !.pc = "L271"]

begin_start_video_call(c, raw_room) ==
  [New(c, "start_video_call") EXCEPT
     !.room_id = NormRoomId(raw_room), !.pc = "L313"]

begin_join_video_call(c, raw_room) ==
  [New(c, "join_video_call") EXCEPT
     !.room_id = NormRoomId(raw_room), !.pc = "L343"]

begin_leave_video_call(c, raw_room) ==
  [New(c, "leave_video_call") EXCEPT
     !.room_id = NormRoomId(raw_room), !.pc = "L391"]

begin_webrtc_offer(c, target_peer, offer) ==
  [New(c, "webrtc_offer") EXCEPT
     !.room_id = target_peer, !.message = offer, !.pc = "L434"]

begin_webrtc_answer(c, target_peer, answer) ==
  [New(c, "webrtc_answer") EXCEPT
     !.room_id = target_peer, !.message = answer, !.pc = "L449"]

begin_ice_candidate(c, target_peer, candidate) ==
  [New(c, "webrtc_ice_candidate") EXCEPT
     !.room_id = target_peer, !.message = candidate, !.pc = "L464"]

\* one step of the handler a thread runs
Step(w, t) ==
  CASE t.op = "disconnect" -> disconnect_step(w, t)
    [] t.op = "create_room" -> create_room_step(w, t)
    [] t.op = "join_room" -> join_room_step(w, t)
    [] t.op = "leave_room" -> leave_room_step(w, t)
    [] t.op = "send_message" -> send_message_step(w, t)
    [] t.op = "send_voice_note" -> send_voice_note_step(w, t)
    [] t.op = "start_video_call" -> start_video_call_step(w, t)
    [] t.op = "join_video_call" -> join_video_call_step(w, t)
    [] t.op = "leave_video_call" -> leave_video_call_step(w, t)
    [] t.op \in {"webrtc_offer", "webrtc_answer", "webrtc_ice_candidate"} ->
         relay_step(w, t)

\* the handler run to its end with no other handler in between
RECURSIVE Run(_, _)
Run(w, t) ==
  IF t.pc = "done" THEN [w |-> w, t |-> t]
  ELSE LET r == Step(w, t) IN Run(r.w, r.t)

\* ------------------------------------------------- sequential handlers
\* A profile P names the input sets an exploration draws from, the bound on
\* a room's history, and whether threads keeps the last handler's record
\* (its emitted events) for the properties that speak of events.
HistBounded(rooms, n) == \A r \in DOMAIN rooms : Len(rooms[r].messages) <= n

Commit(w, n) ==
  /\ HistBounded(w.rooms, n)
  /\ active_rooms' = w.rooms
  /\ sio_rooms' = w.sio
  /\ live' = w.live
  /\ received' = w.received
  /\ from_start' = w.from_start

\* what is kept of a handler that has returned: its event, its connection,
\* the room it named and the events it emitted
Returned(t) ==
  [Idle EXCEPT !.op = t.op, !.sid = t.sid, !.room_id = t.room_id,
               !.out = t.out, !.fault = t.fault]

\* a whole handler as one atomic event of connection t.sid
Handle(t, P) ==
  LET r == Run(World, t)
  IN /\ Commit(r.w, P.hist)
     /\ threads' = IF P.observe
                   THEN [c \in Sids |-> IF c = t.sid THEN Returned(r.t) ELSE Idle]
                   ELSE threads

handle_disconnect(P) ==
  \E c \in Sids : \E order \in Perms(sio_rooms[c]) :
    /\ c \in live
    /\ Handle(begin_disconnect(c, order), P)

handle_create_room(P) ==
  \E c \in Sids : \E ids \in Perms(generate_room_id) :
    /\ c \in live
    /\ \E id \in generate_room_id : id \notin DOMAIN active_rooms
    /\ Handle(begin_create_room(c, ids), P)

handle_join_room(P) ==
  \E c \in Sids, raw_room \in P.rooms, raw_name \in P.names :
    /\ c \in live
    /\ Handle(begin_join_room(c, raw_room, raw_name), P)

handle_leave_room(P) ==
  \E c \in Sids, raw_room \in P.rooms :
    /\ c \in live
    /\ Handle(begin_leave_room(c, raw_room), P)

handle_send_message(P) ==
  \E c \in Sids, raw_room \in P.rooms, raw_text \in TextInputs :
    /\ c \in live
    /\ Handle(begin_send_message(c, raw_room, raw_text), P)

handle_send_voice_note(P) ==
  \E c \in Sids, raw_room \in P.rooms, audio \in AudioInputs :
    /\ c \in live
    /\ Handle(begin_send_voice_note(c, raw_room, audio), P)

handle_start_video_call(P) ==
  \E c \in Sids, raw_room \in P.rooms :
    /\ c \in live
    /\ Handle(begin_start_video_call(c, raw_room), P)

handle_join_video_call(P) ==
  \E c \in Sids, raw_room \in P.rooms :
    /\ c \in live
    /\ Handle(begin_join_video_call(c, raw_room), P)

handle_leave_video_call(P) ==
  \E c \in Sids, raw_room \in P.rooms :
    /\ c \in live
    /\ Handle(begin_leave_video_call(c, raw_room), P)

handle_webrtc_offer(P) ==
  \E c \in Sids, target_peer \in P.targets :
    /\ c \in live
    /\ Handle(begin_webrtc_offer(c, target_peer, <<"sdp">>), P)

handle_webrtc_answer(P) ==
  \E c \in Sids, target_peer \in P.targets :
    /\ c \in live
    /\ Handle(begin_webrtc_answer(c, target_peer, <<"sdp">>), P)

handle_ice_candidate(P) ==
  \E c \in Sids, target_peer \in P.targets :
    /\ c \in live
    /\ Handle(begin_ice_candidate(c, target_peer, <<"ice">>), P)

Init ==
  /\ active_rooms = <<>>
  /\ sio_rooms = [c \in Sids |-> {}]
  /\ live = Sids
  /\ received = [c \in Sids |-> <<>>]
  /\ from_start = {}
  /\ threads = [c \in Sids |-> Idle]

\* ---- room lifecycle: create_room, join_room, leave_room, disconnect
RoomsP ==
  [rooms |-> RoomInputs, names |-> NameInputs, hist |-> MaxHist,
   observe |-> FALSE]

NextRooms ==
  \/ handle_disconnect(RoomsP)
  \/ handle_create_room(RoomsP)
  \/ handle_join_room(RoomsP)
  \/ handle_leave_room(RoomsP)

SpecRooms == Init /\ [][NextRooms]_vars

\* ---- the same handlers with the events of each handler kept
LifeP ==
  [rooms |-> {<<"a">>, <<"C", " ">>}, names |-> {<<"b">>, <<"d">>},
   hist |-> MaxHist, observe |-> TRUE]

NextLife ==
  \/ handle_disconnect(LifeP)
  \/ handle_create_room(LifeP)
  \/ handle_join_room(LifeP)
  \/ handle_leave_room(LifeP)

SpecLife == Init /\ [][NextLife]_vars

\* ---- video call membership in one room, with the events of each handler
CallsP ==
  [rooms |-> {<<"a">>}, names |-> {<<"b">>, <<"d">>},
   hist |-> MaxCallHist, observe |-> TRUE]

NextCalls ==
  \/ handle_disconnect(CallsP)
  \/ handle_create_room(CallsP)
  \/ handle_join_room(CallsP)
  \/ handle_leave_room(CallsP)
  \/ handle_start_video_call(CallsP)
  \/ handle_join_video_call(CallsP)
  \/ handle_leave_video_call(CallsP)

SpecCalls == Init /\ [][NextCalls]_vars


\* ---- chat: every handler that writes a room's history, one room
ChatP ==
  [rooms |-> {<<"a">>}, names |-> {<<"b">>, <<"d">>}, hist |-> MaxHist,
   observe |-> FALSE]

NextChat ==
  \/ handle_disconnect(ChatP)
  \/ handle_create_room(ChatP)
  \/ handle_join_room(ChatP)
  \/ handle_leave_room(ChatP)
  \/ handle_send_message(ChatP)
  \/ handle_send_voice_note(ChatP)
  \/ handle_start_video_call(ChatP)
  \/ handle_join_video_call(ChatP)
  \/ handle_leave_video_call(ChatP)

SpecChat == Init /\ [][NextChat]_vars

\* ---- requests that are refused: joins and voice notes over every input
RejectP ==
  [rooms |-> {<<"a">>, <<" ">>}, names |-> NameInputs, hist |-> MaxHist,
   observe |-> TRUE]

NextReject ==
  \/ handle_disconnect(RejectP)
  \/ handle_join_room(RejectP)
  \/ handle_leave_room(RejectP)
  \/ handle_send_voice_note(RejectP)

SpecReject == Init /\ [][NextReject]_vars

\* ---- leaving by leave_room and by disconnect, in and out of a call
LeaveP ==
  [rooms |-> {<<"a">>}, names |-> {<<"b">>, <<"d">>},
   hist |-> MaxCallHist, observe |-> TRUE]

NextLeave ==
  \/ handle_disconnect(LeaveP)
  \/ handle_join_room(LeaveP)
  \/ handle_leave_room(LeaveP)
  \/ handle_join_video_call(LeaveP)

SpecLeave == Init /\ [][NextLeave]_vars

\* ---- signaling relay: target_peer is a sid, a room id, or neither
RelayP ==
  [rooms |-> {<<"a">>}, names |-> {<<"b">>, <<"d">>}, hist |-> MaxHist,
   observe |-> TRUE, targets |-> Sids \cup {<<"A">>, <<"z">>}]

NextRelay ==
  \/ handle_disconnect(RelayP)
  \/ handle_join_room(RelayP)
  \/ handle_leave_room(RelayP)
  \/ handle_webrtc_offer(RelayP)
  \/ handle_webrtc_answer(RelayP)
  \/ handle_ice_candidate(RelayP)

SpecRelay == Init /\ [][NextRelay]_vars

\* --------------------------------------------------- threaded handlers
\* async_mode='threading': each event runs its handler on a thread of its
\* own and no handler takes a lock, so the steps of handlers interleave.
\* a connection's event arrives: its handler starts
Arrive(t) ==
  /\ threads[t.sid].pc = "done"
  /\ threads' = [threads EXCEPT ![t.sid] = t]
  /\ UNCHANGED <<active_rooms, sio_rooms, live, received, from_start>>

\* the handler of connection c runs its next statement
thread_step(c, n) ==
  /\ threads[c].pc # "done"
  /\ LET r == Step(World, threads[c])
     IN /\ Commit(r.w, n)
        /\ threads' = [threads EXCEPT ![c] = r.t]

\* ---- two connections join one room at the same time
JoinRaceNames == {<<"b">>, <<"B", " ">>, <<"d">>}

arrive_join_room ==
  \E c \in Sids, raw_name \in JoinRaceNames :
    /\ c \in live
    /\ Arrive(begin_join_room(c, <<"a">>, raw_name))

run_join_room ==
  \E c \in Sids : threads[c].op = "join_room" /\ thread_step(c, MaxHist)

NextJoinRace == arrive_join_room \/ run_join_room

SpecJoinRace == Init /\ [][NextJoinRace]_vars

\* ---- members of one room send at the same time
SendRaceP ==
  [rooms |-> {<<"a">>}, names |-> {<<"b">>, <<"d">>}, hist |-> MaxRaceHist,
   observe |-> FALSE]

arrive_send_message ==
  \E c \in Sids :
    c \in live /\ Arrive(begin_send_message(c, <<"a">>, <<"h">>))

arrive_send_voice_note ==
  \E c \in Sids :
    c \in live /\ Arrive(begin_send_voice_note(c, <<"a">>, 1))

run_send_message ==
  \E c \in Sids :
    threads[c].op = "send_message" /\ thread_step(c, MaxRaceHist)

run_send_voice_note ==
  \E c \in Sids :
    threads[c].op = "send_voice_note" /\ thread_step(c, MaxRaceHist)

NextSendRace ==
  \/ handle_join_room(SendRaceP)
  \/ arrive_send_message
  \/ arrive_send_voice_note
  \/ run_send_message
  \/ run_send_voice_note

SpecSendRace == Init /\ [][NextSendRace]_vars

\* ---- members of the same rooms leave and disconnect at the same time;
\* each connection joins under its own sid as its name, leave_room names
\* room A
LeaveRaceP ==
  [rooms |-> {<<"a">>, <<"C", " ">>}, names |-> Sids, hist |-> MaxRaceHist,
   observe |-> FALSE]

join_before_leave ==
  \E c \in Sids, raw_room \in LeaveRaceP.rooms :
    /\ c \in live
    /\ threads[c].pc = "done"
    /\ Handle(begin_join_room(c, raw_room, c), LeaveRaceP)

arrive_disconnect ==
  \E c \in Sids : \E order \in Perms(sio_rooms[c]) :
    c \in live /\ Arrive(begin_disconnect(c, order))

arrive_leave_room ==
  \E c \in Sids :
    c \in live /\ Arrive(begin_leave_room(c, <<"a">>))

run_disconnect ==
  \E c \in Sids :
    threads[c].op = "disconnect" /\ thread_step(c, MaxRaceHist)

run_leave_room ==
  \E c \in Sids :
    threads[c].op = "leave_room" /\ thread_step(c, MaxRaceHist)

NextLeaveRace ==
  \/ join_before_leave
  \/ arrive_disconnect
  \/ arrive_leave_room
  \/ run_disconnect
  \/ run_leave_room

SpecLeaveRace == Init /\ [][NextLeaveRace]_vars

\* ================================================================ claims
Users(r) == active_rooms[r].users

Call(r) == active_rooms[r].video_call

\* the handler that returned last, when events are kept
Last(c) == threads[c]

\* C1: in every reachable state every existing room has
\* video_call.active equal to (participants is non-empty).
C1_ActiveIffParticipants ==
  \A r \in DOMAIN active_rooms :
    Call(r).active = (Len(Call(r).participants) > 0)

\* C2: in every reachable state every connection id among a room's video
\* call participants is a key of that room's users map.
C2_ParticipantsAreMembers ==
  \A r \in DOMAIN active_rooms :
    Elems(Call(r).participants) \subseteq UserKeys(Users(r))

\* C3: with handlers run one after the other, the display names of a room's
\* members are pairwise distinct when compared ignoring case.
C3_NamesDistinct ==
  \A r \in DOMAIN active_rooms :
    \A i, j \in 1..Len(Users(r)) :
      i # j => lower(Users(r)[i].name) # lower(Users(r)[j].name)

\* C3 witness: a room of two members whose first member re-joined under
\* another name (the first history entry announces its earlier name).
C3_Witness ==
  \E r \in DOMAIN active_rooms :
    /\ Len(Users(r)) = 2
    /\ active_rooms[r].messages[1] = SystemMsg(<<"b", " has joined the room">>)
    /\ Users(r)[1].name = <<"d">>
    /\ lower(Users(r)[2].name) = <<"b">>

\* C5: when the last member of a room leaves (leave_room or disconnect) the
\* room id is absent from active_rooms right afterwards, and a room id that
\* enters active_rooms again starts fresh: no call, no participants, and a
\* history holding at most the system message of the join that made it.
LastMemberLeaves(r) ==
  /\ r \in DOMAIN active_rooms
  /\ Len(Users(r)) = 1
  /\ \/ r \notin DOMAIN active_rooms'
     \/ Users(r)[1].sid \notin UserKeys(active_rooms'[r].users)

MadeAnew(r) == r \notin DOMAIN active_rooms /\ r \in DOMAIN active_rooms'

FreshAfter(r) ==
  LET room == active_rooms'[r]
  IN /\ room.video_call = [active |-> FALSE, participants |-> <<>>]
     /\ \/ room.users = <<>> /\ room.messages = <<>>
        \/ /\ Len(room.users) = 1
           /\ room.messages =
                <<SystemMsg(room.users[1].name \o <<" has joined the room">>)>>

C5_LastLeaveDeletesRoom ==
  [][\A r \in RoomIds :
       /\ LastMemberLeaves(r) => r \notin DOMAIN active_rooms'
       /\ MadeAnew(r) => FreshAfter(r)]_vars

\* C5 witness: the handler that just returned was a leave_room or a
\* disconnect that removed a member (it told the room user_left) and the
\* room it left is gone, while the other room still stands.
C5_Witness ==
  \E c \in Sids :
    /\ Last(c).op \in {"leave_room", "disconnect"}
    /\ \E i \in 1..Len(Last(c).out) : Last(c).out[i].event = "user_left"
    /\ Last(c).room_id \notin DOMAIN active_rooms
    /\ Cardinality(DOMAIN active_rooms) = 1

\* C6 as claimed: every room present in active_rooms has at least one member.
C6_RoomsHaveMembers ==
  \A r \in DOMAIN active_rooms : Len(Users(r)) > 0

\* C6 amended: every room present in active_rooms has at least one member,
\* or is as create_room made it and nobody has joined it yet: no history,
\* no call.
C6_MemberlessOnlyIfUnjoined ==
  \A r \in DOMAIN active_rooms :
    Len(Users(r)) = 0 => active_rooms[r] = NewRoom

\* C6 witness: a room made by create_room that nobody entered, next to a
\* room that lost one of its two members and still stands.
C6_Witness ==
  \E r, q \in DOMAIN active_rooms :
    /\ Len(Users(r)) = 0
    /\ Len(Users(q)) = 1
    /\ Len(active_rooms[q].messages) = 3

\* C7: in every reachable state a connection id is a key of the users map
\* of at most one room.
C7_AtMostOneRoom ==
  \A c \in Sids :
    Cardinality({r \in DOMAIN active_rooms : c \in UserKeys(Users(r))}) <= 1

\* C10: for a member of a room, a leave_video_call right after its own
\* leave_video_call for that room leaves the room as it was and emits
\* nothing.
C10_SecondLeaveCallIsNoOp ==
  [][\A c \in Sids :
       (/\ Last(c).op = "leave_video_call"
        /\ threads'[c].op = "leave_video_call"
        /\ threads'[c].room_id = Last(c).room_id
        /\ Last(c).room_id \in DOMAIN active_rooms
        /\ c \in UserKeys(Users(Last(c).room_id)))
       => /\ active_rooms' = active_rooms
          /\ threads'[c].out = <<>>]_vars


\* C4: two connections that join one room at the same time under names
\* equal ignoring case never both become members, whatever the interleaving.
C4_ConcurrentJoinsOneWinner ==
  \A r \in DOMAIN active_rooms :
    \A c, d \in UserKeys(Users(r)) :
      c # d => lower(UserName(Users(r), c)) # lower(UserName(Users(r), d))

\* the text and voice entries of a sequence of messages
TextVoice(msgs) == SelectSeq(msgs, LAMBDA m : m.type \in {"text", "voice"})

RECURSIVE IsSubseq(_, _)
IsSubseq(a, b) ==
  IF a = <<>> THEN TRUE
  ELSE IF b = <<>> THEN FALSE
  ELSE IF Head(a) = Head(b) THEN IsSubseq(Tail(a), Tail(b))
  ELSE IsSubseq(a, Tail(b))

\* the members that have been in room r since its history was empty
SinceStart(r) == {c \in Sids : <<c, r>> \in from_start}

\* C8 as claimed: for a member of a room since its creation the history read
\* in order is exactly the sequence of new_message events it received.
C8_HistoryIsReceived ==
  \A r \in DOMAIN active_rooms : \A c \in SinceStart(r) :
    active_rooms[r].messages = received[c][r]

\* C8 amended: for such a member the text and voice entries of the history,
\* in order, are exactly the text and voice new_message events it received,
\* and the new_message events it received are history entries in history
\* order; the system entries of join_room, leave_room, start_video_call and
\* 'Video call ended' are in the history only.
C8_TextVoiceHistoryIsReceived ==
  \A r \in DOMAIN active_rooms : \A c \in SinceStart(r) :
    /\ TextVoice(active_rooms[r].messages) = TextVoice(received[c][r])
    /\ IsSubseq(received[c][r], active_rooms[r].messages)

\* C8 witness: such a member has received a text or voice message and a
\* system notice, and the history holds more than it received.
C8_Witness ==
  \E r \in DOMAIN active_rooms : \E c \in SinceStart(r) :
    /\ TextVoice(received[c][r]) # <<>>
    /\ \E i \in 1..Len(received[c][r]) : received[c][r][i].type = "system"
    /\ Len(active_rooms[r].messages) > Len(received[c][r])

Before(msgs, m, n) ==
  \E i, j \in 1..Len(msgs) : i < j /\ msgs[i] = m /\ msgs[j] = n

\* C9: for two text or voice messages of different connections to one room
\* the order in which any connection received their new_message events is
\* their order in the room's history, whatever the interleaving.
C9_DeliveryOrderIsHistoryOrder ==
  \A r \in DOMAIN active_rooms : \A c \in Sids :
    r \in DOMAIN received[c] =>
      \A m, n \in Elems(TextVoice(received[c][r])) :
        (m.sender_id # n.sender_id /\ Before(received[c][r], m, n)
           /\ m \in Elems(active_rooms[r].messages)
           /\ n \in Elems(active_rooms[r].messages))
        => Before(active_rooms[r].messages, m, n)

\* the handler emitted one error event, to its own connection, and no other
ErrorToSelfOnly(t) ==
  /\ Len(t.out) = 1
  /\ t.out[1].event = "error"
  /\ t.out[1].to = {t.sid}
  /\ ~t.fault

\* a join_room request the handler must refuse in the current state
JoinRefused(raw_room, raw_name) ==
  \/ strip(raw_room) = <<>>
  \/ strip(raw_name) = <<>>
  \/ /\ upper(strip(raw_room)) \in DOMAIN active_rooms
     /\ \E u \in Elems(Users(upper(strip(raw_room)))) :
          lower(u.name) = lower(strip(raw_name))

\* a send_voice_note request with no audio or with more than 5 MiB of it
VoiceRefused(audio) == audio = 0 \/ audio > 5 * 1024 * 1024

\* C11: in every reachable state, a join_room with a blank room id, a blank
\* username or a name taken case-insensitively in that room, and a
\* send_voice_note with no audio or more than 5 MiB of it, emits exactly one
\* error event, to the originating connection only, and leaves active_rooms
\* as it was.
C11_RefusedRequestChangesNothing ==
  \A c \in live :
    /\ \A raw_room \in RejectP.rooms, raw_name \in RejectP.names :
         JoinRefused(raw_room, raw_name) =>
           LET r == Run(World, begin_join_room(c, raw_room, raw_name))
           IN ErrorToSelfOnly(r.t) /\ r.w.rooms = active_rooms
    /\ \A raw_room \in RejectP.rooms, audio \in AudioInputs :
         VoiceRefused(audio) =>
           LET r == Run(World, begin_send_voice_note(c, raw_room, audio))
           IN ErrorToSelfOnly(r.t) /\ r.w.rooms = active_rooms

\* a join of a room under a name one of its members holds was refused
C11_Witness ==
  \E c, d \in Sids :
    /\ c # d
    /\ Last(c).op = "join_room"
    /\ Last(c).room_id \in DOMAIN active_rooms
    /\ d \in UserKeys(Users(Last(c).room_id))
    /\ c \notin UserKeys(Users(Last(c).room_id))
    /\ ErrorToSelfOnly(Last(c))
    /\ Last(c).out[1].data.message = <<"Username already taken in this room">>

\* connection c is a member of the room a request names
MemberOf(c, raw_room) ==
  /\ upper(strip(raw_room)) \in DOMAIN active_rooms
  /\ c \in UserKeys(Users(upper(strip(raw_room))))

\* the room-scoped requests connection c can make about a room
RoomScoped(c, raw_room) ==
  {begin_send_message(c, raw_room, x) :
     x \in {y \in TextInputs : strip(y) # <<>>}}
  \cup {begin_send_voice_note(c, raw_room, a) : a \in AudioInputs}
  \cup {begin_start_video_call(c, raw_room),
        begin_join_video_call(c, raw_room),
        begin_leave_video_call(c, raw_room)}

\* C12: in every reachable state, each room-scoped request (send_message
\* with non-blank text, send_voice_note, start_video_call, join_video_call,
\* leave_video_call) of a connection that is not a member of the named room
\* emits one 'You are not in this room' error to that connection and leaves
\* active_rooms as it was.
C12_NonMemberIsToldSo ==
  \A c \in live, raw_room \in ChatP.rooms :
    ~MemberOf(c, raw_room) =>
      \A t \in RoomScoped(c, raw_room) :
        LET r == Run(World, t)
        IN /\ ErrorToSelfOnly(r.t)
           /\ r.t.out[1].data = NotInRoom
           /\ r.w.rooms = active_rooms

\* a room as a handler left it, or that it is gone
RoomAfter(rooms, r) ==
  IF r \in DOMAIN rooms THEN <<"room", rooms[r]>> ELSE <<"deleted">>

\* the events of out addressed to room r, as the connections other than c
\* get them
RECURSIVE ToOthers(_, _, _)
ToOthers(out, r, c) ==
  IF out = <<>> THEN <<>>
  ELSE LET e == Head(out)
           rest == ToOthers(Tail(out), r, c)
       IN IF e.room = r
          THEN <<[event |-> e.event, to |-> e.to \ {c}, data |-> e.data]>>
               \o rest
          ELSE rest

\* C13: in every reachable state, for a connection c that is a member of a
\* room r, disconnect (in any order of c's rooms) and leave_room of r leave
\* room r in the same state (users, participants, active, history, deleted
\* or not) and send the same events of room r to the other connections;
\* and the disconnect of a connection that is a member of no room leaves
\* active_rooms as it was and emits nothing.
C13_DisconnectIsLeave ==
  \A c \in live : \A order \in Perms(sio_rooms[c]) :
    LET D == Run(World, begin_disconnect(c, order))
    IN /\ ~D.t.fault
       /\ \A r \in DOMAIN active_rooms :
            c \in UserKeys(Users(r)) =>
              LET L == Run(World, begin_leave_room(c, r))
              IN /\ RoomAfter(D.w.rooms, r) = RoomAfter(L.w.rooms, r)
                 /\ ToOthers(D.t.out, r, c) = ToOthers(L.t.out, r, c)
       /\ (\A r \in DOMAIN active_rooms : c \notin UserKeys(Users(r))) =>
            D.w.rooms = active_rooms /\ D.t.out = <<>>

\* a call participant disconnected and the room's other member was told of
\* both the call and the room being left
C13_Witness ==
  \E c, d \in Sids :
    /\ c # d
    /\ Last(c).op = "disconnect"
    /\ \E r \in DOMAIN active_rooms :
         /\ d \in UserKeys(Users(r))
         /\ c \notin UserKeys(Users(r))
         /\ ToOthers(Last(c).out, r, c) # <<>>
         /\ \E i \in 1..Len(Last(c).out) :
              /\ Last(c).out[i].event = "user_left_call"
              /\ Last(c).out[i].room = r
              /\ d \in Last(c).out[i].to

\* the events the handler of this step emitted to room r
EmittedTo(r) ==
  UNION {{threads'[c].out[i] : i \in 1..Len(threads'[c].out)} : c \in Sids}

ParticipantsAfter(r) ==
  IF r \in DOMAIN active_rooms'
  THEN active_rooms'[r].video_call.participants ELSE <<>>

\* C14: a step (leave_video_call, leave_room or disconnect) that takes the
\* last participant out of a room's call leaves the call inactive and
\* emits video_call_ended to the room; a step that takes a participant out
\* and leaves others in emits user_left_call to the room and no
\* video_call_ended.
C14_EmptiedCallEnds ==
  [][\A r \in DOMAIN active_rooms :
       Len(ParticipantsAfter(r)) < Len(Call(r).participants) =>
         IF ParticipantsAfter(r) = <<>>
         THEN /\ r \in DOMAIN active_rooms' =>
                   ~active_rooms'[r].video_call.active
              /\ \E e \in EmittedTo(r) :
                   e.event = "video_call_ended" /\ e.room = r
         ELSE /\ \E e \in EmittedTo(r) :
                   e.event = "user_left_call" /\ e.room = r
              /\ \A e \in EmittedTo(r) :
                   ~(e.event = "video_call_ended" /\ e.room = r)]_vars

\* the three relay requests of connection c for a target, each with the
\* event and the payload key it must arrive under
RelayRequests(c, target_peer) ==
  {<<begin_webrtc_offer(c, target_peer, <<"sdp">>), "webrtc_offer",
     [offer |-> <<"sdp">>, peer_id |-> c]>>,
   <<begin_webrtc_answer(c, target_peer, <<"sdp">>), "webrtc_answer",
     [answer |-> <<"sdp">>, peer_id |-> c]>>,
   <<begin_ice_candidate(c, target_peer, <<"ice">>), "webrtc_ice_candidate",
     [candidate |-> <<"ice">>, peer_id |-> c]>>}

\* C15: in every reachable state a relay request with any target_peer emits
\* its one event, carrying the payload and the sender's sid, to the live
\* connection whose sid is target_peer and to no other connection, to no
\* connection at all when there is no such live connection, never an error,
\* and leaves active_rooms as it was.
C15_RelayReachesTargetOnly ==
  \A c \in live, target_peer \in RelayP.targets :
    \A q \in RelayRequests(c, target_peer) :
      LET r == Run(World, q[1])
      IN /\ Len(r.t.out) = 1
         /\ r.t.out[1].event = q[2]
         /\ r.t.out[1].data = q[3]
         /\ r.t.out[1].to = {target_peer} \cap live
         /\ r.w.rooms = active_rooms

\* the display name connection c holds in room r
NameOf(c, r) == (CHOOSE u \in Elems(Users(r)) : u.sid = c).name

\* C16: in every reachable state, a send_message with non-blank text by a
\* member of the room appends exactly one text message (the sender's
\* display name, the stripped text) to that room's history and changes
\* nothing else, and emits one new_message carrying it to exactly the
\* members of the room, the sender included; a send_message with empty or
\* whitespace-only text changes nothing and emits nothing.
C16_SendMessageAppendsAndBroadcasts ==
  \A c \in live, raw_room \in ChatP.rooms, raw_text \in TextInputs :
    LET r == Run(World, begin_send_message(c, raw_room, raw_text))
        id == upper(strip(raw_room))
    IN /\ strip(raw_text) = <<>> =>
            /\ r.w.rooms = active_rooms
            /\ r.w.received = received
            /\ r.t.out = <<>>
       /\ strip(raw_text) # <<>> /\ MemberOf(c, raw_room) =>
            LET m == [type |-> "text", username |-> NameOf(c, id),
                      message |-> strip(raw_text), sender_id |-> c,
                      audio_data |-> 0]
            IN /\ r.w.rooms =
                    [active_rooms EXCEPT ![id].messages = Append(@, m)]
               /\ Len(r.t.out) = 1
               /\ r.t.out[1].event = "new_message"
               /\ r.t.out[1].data = m
               /\ r.t.out[1].to = UserKeys(Users(id))
               /\ c \in r.t.out[1].to

\* a text message is the last of a room's history and the last new_message
\* both of the room's two members got
C16_Witness ==
  \E r \in DOMAIN active_rooms :
    /\ UserKeys(Users(r)) = Sids
    /\ active_rooms[r].messages # <<>>
    /\ LET m == active_rooms[r].messages[Len(active_rooms[r].messages)]
       IN /\ m.type = "text"
          /\ \A c \in Sids :
               /\ r \in DOMAIN received[c]
               /\ received[c][r] # <<>>
               /\ received[c][r][Len(received[c][r])] = m

\* the history and the members of room id before a request, a room that
\* does not exist having neither
HistoryOf(id) ==
  IF id \in DOMAIN active_rooms THEN active_rooms[id].messages ELSE <<>>

MembersOf(id) ==
  IF id \in DOMAIN active_rooms THEN UserKeys(Users(id)) ELSE {}

\* C17: in every reachable state, a join_room that is not refused emits
\* room_joined to the joiner only, with messages equal to the room's history
\* before the join, in order, and users the names of the members with the
\* joiner among them (messages = [] and users = [own name] for the first
\* joiner of a fresh room), then one user_joined without history to every
\* other member and to no one else; afterwards the room's history is the
\* history before with '<name> has joined the room' appended.
C17_JoinReplaysHistory ==
  \A c \in live, raw_room \in LifeP.rooms, raw_name \in LifeP.names :
    ~JoinRefused(raw_room, raw_name) =>
      LET r == Run(World, begin_join_room(c, raw_room, raw_name))
          id == upper(strip(raw_room))
          name == strip(raw_name)
          after == r.w.rooms[id]
      IN /\ Len(r.t.out) = 2
         /\ r.t.out[1].event = "room_joined"
         /\ r.t.out[1].to = {c}
         /\ r.t.out[1].data.messages = HistoryOf(id)
         /\ r.t.out[1].data.users =
              [i \in 1..Len(after.users) |-> after.users[i].name]
         /\ \E i \in 1..Len(after.users) :
              after.users[i] = [sid |-> c, name |-> name]
         /\ MembersOf(id) = {} /\ HistoryOf(id) = <<>> =>
              /\ r.t.out[1].data.messages = <<>>
              /\ r.t.out[1].data.users = <<name>>
         /\ r.t.out[2].event = "user_joined"
         /\ r.t.out[2].to = MembersOf(id) \ {c}
         /\ "messages" \notin DOMAIN r.t.out[2].data
         /\ after.messages =
              Append(HistoryOf(id),
                     [type |-> "system", username |-> <<"System">>,
                      message |-> name \o <<" has joined the room">>,
                      sender_id |-> <<>>, audio_data |-> 0])

\* a connection joined a room that had a member and a history: it got that
\* history and the member got user_joined
C17_Witness ==
  \E c, d \in Sids :
    /\ c # d
    /\ Last(c).op = "join_room"
    /\ Len(Last(c).out) = 2
    /\ Last(c).out[1].event = "room_joined"
    /\ Len(Last(c).out[1].data.messages) >= 2
    /\ Last(c).out[2].event = "user_joined"
    /\ Last(c).out[2].to = {d}
    /\ Len(active_rooms[Last(c).room_id].messages) =
         Len(Last(c).out[1].data.messages) + 1

\* how many times x occurs in the list s
Occurrences(s, x) == Cardinality({i \in 1..Len(s) : s[i] = x})

\* C18: in every reachable state (after any start_video_call,
\* join_video_call and leave_video_call events), a join_video_call by a
\* room member leaves the joiner in participants exactly once and emits
\* existing_participants to the joiner only, listing each other participant
\* of the call exactly once and neither the joiner nor a connection that is
\* not a member of the room.
C18_JoinCallIsIdempotentAdd ==
  \A c \in live, raw_room \in CallsP.rooms :
    MemberOf(c, raw_room) =>
      LET r == Run(World, begin_join_video_call(c, raw_room))
          id == upper(strip(raw_room))
          ps == r.w.rooms[id].video_call.participants
          ev == r.t.out[1]
          listed == ev.data.participants
      IN /\ Occurrences(ps, c) = 1
         /\ ev.event = "existing_participants"
         /\ ev.to = {c}
         /\ \A i \in 1..Len(listed) :
              /\ listed[i].peer_id # c
              /\ listed[i].peer_id \in UserKeys(Users(id))
              /\ \A j \in 1..Len(listed) :
                   listed[j].peer_id = listed[i].peer_id => j = i
         /\ \A pid \in (Elems(ps) \cap UserKeys(Users(id))) \ {c} :
              \E i \in 1..Len(listed) : listed[i].peer_id = pid

\* C19: whenever a connection's disconnect handler, interleaved with the
\* leave_room and disconnect handlers of other members, has ended, it ended
\* without an unhandled exception and the connection is in the users and in
\* the call participants of no room.
C19_DisconnectCleansUp ==
  \A c \in Sids :
    threads[c].op = "disconnect" /\ threads[c].pc = "done" =>
      /\ ~threads[c].fault
      /\ \A r \in DOMAIN active_rooms :
           /\ c \notin UserKeys(Users(r))
           /\ c \notin Elems(Call(r).participants)

\* the list a is the beginning of the list b
IsPrefix(a, b) == Len(a) <= Len(b) /\ a = SubSeq(b, 1, Len(a))

\* C20: no step of interleaved join_room handlers replaces a room that
\* exists: the room is still there after the step, with every member and
\* every history entry it had.
C20_RoomNeverReplaced ==
  [][\A r \in DOMAIN active_rooms :
       /\ r \in DOMAIN active_rooms'
       /\ UserKeys(Users(r)) \subseteq UserKeys(active_rooms'[r].users)
       /\ IsPrefix(active_rooms[r].messages, active_rooms'[r].messages)]_vars
====
